---- MODULE Spec2Model ----
(***************************************************************************)
(* The vulnerability client of internal/vuln (client.go): ByPackage,       *)
(* ByID, Entries and the errgroup fan-out they run their fetches in.       *)
(*                                                                         *)
(* Encodings.  A vulnerability ID is a positive number (the order of the   *)
(* numbers is the order of the ID strings); 0 is no ID.  A version is a    *)
(* number: 0 is the empty string, 1 is the zero version "0", and k < l     *)
(* when version k is before version l.  An error is a string, "nil" for    *)
(* no error.                                                               *)
(***************************************************************************)
EXTENDS Integers, Sequences, FiniteSets, TLC

\* ---------------------------------------------------------------- bounds
\* Vulnerability IDs of the database are 1..NumIDs.
NumIDs == 2
\* Versions are 1..MaxVer (0 is the empty version string).
MaxVer == 3
\* A record has at most MaxGroups Affected groups.
MaxGroups == 2
\* A module's index entry lists at most MaxVulns vulnerabilities.
MaxVulns == 2
\* The IDs to fetch beyond the limit of the group, when there are many.
Excess == 1
\* A range given to collectRangePairs has at most MaxEvents events.
MaxEvents == 2
\* A package given to AffectedComponents has at most MaxSymbols symbols.
MaxSymbols == 3

\* ------------------------------------------------------ program constants
\* g.SetLimit(10) in ByPackage, g.SetLimit(4) in Entries.
ByPackageLimit == 10
EntriesLimit == 4

IDs == 1..NumIDs
Versions == 1..MaxVer
NoErr == "nil"

\* ------------------------------------------------------------ data (osv)
\* osv.RangeEvent, osv.Range, osv.Affected, osv.Entry as records with the
\* fields client.go reads.
Event(introduced, fixed) == [Introduced |-> introduced, Fixed |-> fixed]
SemverRange(events) == [Type |-> "SEMVER", Events |-> events]
Group(path, ranges, pkgs) ==
    [Module |-> [Path |-> path],
     Ranges |-> ranges,
     EcosystemSpecific |-> [Packages |-> pkgs]]
Pkg(path) == [Path |-> path]
Entry(id, affected) == [ID |-> id, Affected |-> affected]
\* A nil *osv.Entry.
NilEntry == [ID |-> 0, Affected |-> <<>>]

\* What the Source holds under one key: a get that fails with "not found",
\* a get that fails with another transport error, bytes that are not a JSON
\* record, or the bytes of a record.
NotFoundDoc == [kind |-> "notfound", entry |-> NilEntry]
ErrorDoc == [kind |-> "error", entry |-> NilEntry]
MalformedDoc == [kind |-> "malformed", entry |-> NilEntry]
EntryDoc(e) == [kind |-> "bytes", entry |-> e]

\* ModuleMeta and its ModuleVuln elements (modules index), VulnMeta (ID index).
ModuleVuln(id, fixed) == [ID |-> id, Fixed |-> fixed]
ModuleMeta(path, vulns) == [ok |-> TRUE, Path |-> path, Vulns |-> vulns]
\* An element of the index array that does not decode.
BadModuleMeta == [ok |-> FALSE, Path |-> "", Vulns |-> <<>>]
VulnMeta(id, aliases) == [ok |-> TRUE, ID |-> id, Aliases |-> aliases]
BadVulnMeta == [ok |-> FALSE, ID |-> 0, Aliases |-> <<>>]
\* An index document: the get fails (kind "error"), or the bytes hold no
\* opening token (kind "empty"), or they hold an array of elements.
IndexErr == [kind |-> "error", elems |-> <<>>]
IndexEmpty == [kind |-> "empty", elems |-> <<>>]
IndexOf(elems) == [kind |-> "array", elems |-> elems]

\* --------------------------------------------------------- range matcher
\* osv.LessSemver(v, w): v is strictly before w.  An empty (invalid) version
\* is before every valid one.
LessSemver(v, w) == v < w

\* The intervals of one range: the events walked in order with a current
\* lower bound; a Fixed closes the interval, a trailing open lower bound is
\* an interval with no upper bound (Fixed = 0).
RECURSIVE Intervals(_, _)
Intervals(events, lower) ==
    IF events = <<>> THEN (IF lower # 0 THEN <<Event(lower, 0)>> ELSE <<>>)
    ELSE LET e == Head(events)
             lo == IF e.Introduced # 0 THEN e.Introduced ELSE lower
         IN IF e.Fixed # 0
            THEN <<Event(lo, e.Fixed)>> \o Intervals(Tail(events), 0)
            ELSE Intervals(Tail(events), lo)

InInterval(p, v) ==
    /\ (p.Introduced = 0 \/ ~LessSemver(v, p.Introduced))
    /\ (p.Fixed = 0 \/ LessSemver(v, p.Fixed))

\* osv.AffectsSemver(ranges, v): v is inside an interval of a semver range.
AffectsSemver(ranges, v) ==
    \E r \in 1..Len(ranges) :
        /\ ranges[r].Type = "SEMVER"
        /\ LET ps == Intervals(ranges[r].Events, 0)
           IN \E k \in 1..Len(ps) : InInterval(ps[k], v)

\* ------------------------------------------------- affected components
\* In this part a version is the string of the record ("1.5", "" when not
\* set), and a symbol is the sequence of its parts between the dots
\* (<<"S", "f">> is "S.f").
Range(type, events) == [Type |-> type, Events |-> events]
Package(path, symbols) == [Path |-> path, Symbols |-> symbols]
\* The pair type of collectRangePairs.
pair(intro, fixed) == [intro |-> intro, fixed |-> fixed]
\* An AffectedComponent.
AffectedComponent(path, versions, exported, unexported) ==
    [Path |-> path, Versions |-> versions,
     ExportedSymbols |-> exported, UnexportedSymbols |-> unexported]

\* A version value of a range of the given type as it is emitted: with a
\* leading "v" in a semver range when it is not empty, verbatim otherwise.
Canonical_Verbatim(type, v) == v
Canonical(type, v) == IF type = "SEMVER" /\ v # "" THEN "v" \o v ELSE v

\* The walk of collectRangePairs over the events of one range, from the
\* current lower bound: the pairs emitted and the lower bound left.
RECURSIVE collectEvents(_, _, _)
collectEvents(events, type, lower) ==
    IF events = <<>> THEN [pairs |-> <<>>, lower |-> lower]
    ELSE LET e == Head(events)
             lo == IF e.Introduced # "" THEN Canonical(type, e.Introduced) ELSE lower
         IN IF e.Fixed # ""
            THEN LET rest == collectEvents(Tail(events), type, "")
                 IN [pairs |-> <<pair(lo, Canonical(type, e.Fixed))>> \o rest.pairs,
                     lower |-> rest.lower]
            ELSE collectEvents(Tail(events), type, lo)
RECURSIVE collectRanges(_, _)
collectRanges(ranges, lower) ==
    IF ranges = <<>> THEN <<>>
    ELSE LET r == collectEvents(Head(ranges).Events, Head(ranges).Type, lower)
         IN r.pairs \o collectRanges(Tail(ranges), r.lower)
\* collectRangePairs(a) for an osv.Affected a.
collectRangePairs(a) == collectRanges(a.Ranges, "")

\* The clause of one pair in the Versions string.
Clause(p) ==
    IF p.intro = "" /\ p.fixed = "" THEN ""
    ELSE IF p.intro = "" THEN "before " \o p.fixed
         ELSE "from " \o p.intro \o " before " \o p.fixed
\* strings.Join(clauses, ", ").
RECURSIVE Join_Reversed(_)
Join_Reversed(clauses) ==
    IF clauses = <<>> THEN ""
    ELSE IF Len(clauses) = 1 THEN clauses[1]
         ELSE Join_Reversed(Tail(clauses)) \o ", " \o clauses[1]
RECURSIVE Join(_)
Join(clauses) ==
    IF clauses = <<>> THEN ""
    ELSE IF Len(clauses) = 1 THEN clauses[1]
         ELSE clauses[1] \o ", " \o Join(Tail(clauses))
\* The Versions string of a group.
VersionsOf(a) ==
    LET ps == collectRangePairs(a)
        cs == [k \in DOMAIN ps |-> Clause(ps[k])]
    IN Join(SelectSeq(cs, LAMBDA c : c # ""))

\* The parts whose first letter is upper-case (token.IsExported).
UpperParts == {"F", "H", "S"}
\* A symbol is exported when every part of it is.
isExported_LastPart(sym) == sym[Len(sym)] \in UpperParts
isExported(sym) == \A k \in DOMAIN sym : sym[k] \in UpperParts
\* s without the elements that are already before them in s.
RECURSIVE Dedup(_)
Dedup(s) ==
    IF s = <<>> THEN <<>>
    ELSE LET init == SubSeq(s, 1, Len(s) - 1)
             last == s[Len(s)]
         IN IF \E k \in DOMAIN init : init[k] = last THEN Dedup(init)
            ELSE Append(Dedup(init), last)
\* The exported and the unexported symbols of a package, in the order of
\* the package's list.
affectedSymbols(symbols) ==
    [exported |-> SelectSeq(Dedup(symbols), isExported),
     unexported |-> SelectSeq(Dedup(symbols), LAMBDA sym : ~isExported(sym))]

\* The components of one group: one for each package, or one for the
\* module when the group lists no package.
GroupComponents(a) ==
    LET ps == a.EcosystemSpecific.Packages
    IN [pkgs |-> [k \in DOMAIN ps |->
                    AffectedComponent(ps[k].Path, VersionsOf(a),
                                      affectedSymbols(ps[k].Symbols).exported,
                                      affectedSymbols(ps[k].Symbols).unexported)],
        mods |-> IF ps = <<>>
                 THEN <<AffectedComponent(a.Module.Path, VersionsOf(a), <<>>, <<>>)>>
                 ELSE <<>>]
\* AffectedComponents(e): the package components and the module components
\* of the groups of e, in the order of the groups.
RECURSIVE ComponentsOf(_)
ComponentsOf(affected) ==
    IF affected = <<>> THEN [pkgs |-> <<>>, mods |-> <<>>]
    ELSE LET first == GroupComponents(Head(affected))
             rest == ComponentsOf(Tail(affected))
         IN [pkgs |-> first.pkgs \o rest.pkgs, mods |-> first.mods \o rest.mods]
AffectedComponents(e) == ComponentsOf(e.Affected)

\* ------------------------------------------------------------ Source.get
\* A get that fails with the error of its cancelled context.
CanceledDoc == [kind |-> "canceled", entry |-> NilEntry]
IndexCanceled == [kind |-> "canceled", elems |-> <<>>]
\* c.src.get(ctx, key) for a record key: what the Source holds under the
\* key; under a cancelled context the get may also fail with the context's
\* error (an HTTP source aborts, an in-memory source does not look at ctx).
Get(doc, cancelled) == IF cancelled THEN {doc, CanceledDoc} ELSE {doc}
\* The same for an index key.
GetIndex(doc, cancelled) == IF cancelled THEN {doc, IndexCanceled} ELSE {doc}

\* ------------------------------------------------------------- client.go
\* The pre-filter of ByPackage: download the full entry if there is no fix,
\* or the requested version is less than the vuln's highest fixed version.
NeedsFetch_NoFixDropped(v, r) == LessSemver(r.Version, v.Fixed)
NeedsFetch(v, r) == v.Fixed = 0 \/ LessSemver(r.Version, v.Fixed)

RECURSIVE CandidateIDs(_, _)
CandidateIDs(vulns, r) ==
    IF vulns = <<>> THEN <<>>
    ELSE (IF NeedsFetch(Head(vulns), r) THEN <<Head(vulns).ID>> ELSE <<>>)
         \o CandidateIDs(Tail(vulns), r)

\* The decode loop of ByPackage over the elements of the modules index: a
\* decode error ends the call, the first element with the requested path
\* gives the candidate IDs and ends the loop.
RECURSIVE ScanModules_SkipsMalformed(_, _)
ScanModules_SkipsMalformed(elems, r) ==
    IF elems = <<>> THEN [err |-> NoErr, ids |-> <<>>]
    ELSE LET m == Head(elems)
         IN IF m.ok /\ m.Path = r.Module
            THEN [err |-> NoErr, ids |-> CandidateIDs(m.Vulns, r)]
            ELSE ScanModules_SkipsMalformed(Tail(elems), r)
RECURSIVE ScanModules(_, _)
ScanModules(elems, r) ==
    IF elems = <<>> THEN [err |-> NoErr, ids |-> <<>>]
    ELSE LET m == Head(elems)
         IN IF ~m.ok THEN [err |-> "decode", ids |-> <<>>]
            ELSE IF m.Path = r.Module
                 THEN [err |-> NoErr, ids |-> CandidateIDs(m.Vulns, r)]
                 ELSE ScanModules(Tail(elems), r)

\* c.modules(ctx), newStreamDecoder and the decode loop of ByPackage, on the
\* outcome b of the get.
ReadModules(b, r) ==
    IF b.kind = "array" THEN ScanModules(b.elems, r)
    ELSE [err |-> (IF b.kind = "empty" THEN "decode" ELSE "transport"),
          ids |-> <<>>]

\* The decode loop of ids over the elements of the ID index.
RECURSIVE ScanIDs(_)
ScanIDs(elems) ==
    IF elems = <<>> THEN [err |-> NoErr, ids |-> <<>>]
    ELSE LET v == Head(elems)
             rest == ScanIDs(Tail(elems))
         IN IF ~v.ok THEN [err |-> "decode", ids |-> <<>>]
            ELSE IF rest.err # NoErr THEN rest
            ELSE [err |-> NoErr, ids |-> <<v.ID>> \o rest.ids]

\* Client.ids on the outcome b of the get of the ID index.
ReadIDs(b) ==
    IF b.kind = "array" THEN ScanIDs(b.elems)
    ELSE [err |-> (IF b.kind = "empty" THEN "decode" ELSE "transport"),
          ids |-> <<>>]

\* derrors.NotFound, the error of ByAlias for an alias no entry has.
NotFound == "NotFound"

\* The decode loop of ByAlias over the elements of the ID index: a decode
\* error ends the call, the first element that has the alias gives the ID.
RECURSIVE ScanAliases_LastMatch(_, _)
ScanAliases_LastMatch(elems, alias) ==
    IF elems = <<>> THEN [err |-> NotFound, id |-> 0]
    ELSE LET v == elems[Len(elems)]
             before == ScanAliases_LastMatch(SubSeq(elems, 1, Len(elems) - 1), alias)
         IN IF before.err = "decode" \/ ~v.ok THEN [err |-> "decode", id |-> 0]
            ELSE IF \E k \in 1..Len(v.Aliases) : alias = v.Aliases[k]
                 THEN [err |-> NoErr, id |-> v.ID]
                 ELSE before
RECURSIVE ScanAliases(_, _)
ScanAliases(elems, alias) ==
    IF elems = <<>> THEN [err |-> NotFound, id |-> 0]
    ELSE LET v == Head(elems)
         IN IF ~v.ok THEN [err |-> "decode", id |-> 0]
            ELSE IF \E k \in 1..Len(v.Aliases) : alias = v.Aliases[k]
                 THEN [err |-> NoErr, id |-> v.ID]
                 ELSE ScanAliases(Tail(elems), alias)

\* c.vulns(ctx), newStreamDecoder and the decode loop of ByAlias, on the
\* outcome b of the get.
ReadAliases(b, alias) ==
    IF b.kind = "array" THEN ScanAliases(b.elems, alias)
    ELSE [err |-> (IF b.kind = "empty" THEN "decode" ELSE "transport"),
          id |-> 0]

\* The closure packageMatches of isAffected.
packageMatches(a, r) ==
    \/ r.Package = ""
    \/ Len(a.EcosystemSpecific.Packages) = 0
    \/ \E k \in 1..Len(a.EcosystemSpecific.Packages) :
           r.Package = a.EcosystemSpecific.Packages[k].Path

\* A wrong isAffected: the version of the request is not looked at.
isAffected_AnyVersion(e, r) ==
    \E k \in 1..Len(e.Affected) :
        e.Affected[k].Module.Path = r.Module /\ packageMatches(e.Affected[k], r)

\* A wrong isAffected: the three conditions met by different groups.
isAffected_AcrossGroups(e, r) ==
    /\ \E k \in 1..Len(e.Affected) : e.Affected[k].Module.Path = r.Module
    /\ \E k \in 1..Len(e.Affected) : AffectsSemver(e.Affected[k].Ranges, r.Version)
    /\ \E k \in 1..Len(e.Affected) : packageMatches(e.Affected[k], r)

isAffected(e, r) ==
    \E k \in 1..Len(e.Affected) :
        LET a == e.Affected[k]
        IN /\ ~(a.Module.Path # r.Module \/ ~AffectsSemver(a.Ranges, r.Version))
           /\ packageMatches(a, r)

\* Client.ByID on the outcome g of c.entry(ctx, id): any failure of the get
\* is taken for "not found" and gives (nil, nil); bytes that do not
\* unmarshal give an error.
ByID(g) ==
    IF g.kind \in {"notfound", "error", "canceled"}
    THEN [entry |-> NilEntry, err |-> NoErr]
    ELSE IF g.kind = "malformed"
         THEN [entry |-> NilEntry, err |-> "unmarshal"]
         ELSE [entry |-> g.entry, err |-> NoErr]

\* sort.SliceStable(entries, entries[i].ID < entries[j].ID): a stable
\* insertion sort.
RECURSIVE InsertByID(_, _)
InsertByID(sorted, e) ==
    IF sorted = <<>> THEN <<e>>
    ELSE IF e.ID < Head(sorted).ID THEN <<e>> \o sorted
         ELSE <<Head(sorted)>> \o InsertByID(Tail(sorted), e)

RECURSIVE SortByID_FromList(_)
SortByID_FromList(s) ==
    IF s = <<>> THEN <<>>
    ELSE InsertByID(SortByID_FromList(SubSeq(s, 1, Len(s) - 1)), s[Len(s)])

SortByID_Unsorted(s) == s
SortByID(s) == SortByID_FromList(s)

\* ----------------------------------------------------------------- state
VARIABLES
    src,      \* the client's Source: [modules, vulns, entry] (never written)
    op,       \* op[c]: the method call c runs
    req,      \* req[c]: the PackageRequest of a ByPackage call
    idArg,    \* idArg[c]: the id argument of a ByID call
    aliasArg, \* aliasArg[c]: the alias argument of a ByAlias call
    osvArg,   \* osvArg[c]: the osv.Affected or *osv.Entry argument of a call
    out,      \* out[c]: what collectRangePairs or AffectedComponents returned
    ctx,      \* ctx[c]: the caller's context: "background", "live", "cancelled"
    pc,       \* pc[c]: "start", "group" (launch loop and g.Wait), "done"
    ids,      \* ids[c]: the IDs to fetch
    launched, \* launched[c]: the iterations of the launch loop done
    tpc,      \* tpc[c][i]: task i: "idle", "fetch", "lock", "append", "unlock", "done"
    fetched,  \* fetched[c][i]: the entry task i got from ByID (its local entry)
    entries,  \* entries[c]: the result buffer of the call
    mux,      \* mux[c]: the task that holds the mutex, 0 when free
    gerr,     \* gerr[c]: the errgroup's first error
    gctx,     \* gctx[c]: the errgroup has cancelled its context
    ret,      \* ret[c]: what the call returned
    aborted   \* aborted[c]: a record get of the call failed by cancellation

vars == <<src, op, req, idArg, aliasArg, osvArg, out, ctx, pc, ids, launched, tpc, fetched, entries,
          mux, gerr, gctx, ret, aborted>>

Calls == DOMAIN pc
NoReq == [Module |-> "", Package |-> "", Version |-> 0]
PackageRequest(m, p, v) == [Module |-> m, Package |-> p, Version |-> v]
\* A returned (nil, err) and a returned (list, nil); the (id, err) ByAlias
\* returns, "" being the ID 0.
RetNil(err) == [isNil |-> TRUE, entries |-> <<>>, id |-> 0, err |-> err]
RetList(list) == [isNil |-> FALSE, entries |-> list, id |-> 0, err |-> NoErr]
RetID(id, err) == [isNil |-> TRUE, entries |-> <<>>, id |-> id, err |-> err]

\* A configuration: the Source and the calls made on the client.
Call(o, r, id, cx) ==
    [op |-> o, req |-> r, idArg |-> id, alias |-> "", osv |-> NilEntry, ctx |-> cx]
AliasCall(alias, cx) ==
    [op |-> "ByAlias", req |-> NoReq, idArg |-> 0, alias |-> alias, osv |-> NilEntry,
     ctx |-> cx]
\* A call of a function of the affected components, on the osv value x.
PureCall(o, x) ==
    [op |-> o, req |-> NoReq, idArg |-> 0, alias |-> "", osv |-> x,
     ctx |-> "background"]
InitWith(cfg) ==
    /\ src = cfg.src
    /\ op = [c \in DOMAIN cfg.calls |-> cfg.calls[c].op]
    /\ req = [c \in DOMAIN cfg.calls |-> cfg.calls[c].req]
    /\ idArg = [c \in DOMAIN cfg.calls |-> cfg.calls[c].idArg]
    /\ aliasArg = [c \in DOMAIN cfg.calls |-> cfg.calls[c].alias]
    /\ osvArg = [c \in DOMAIN cfg.calls |-> cfg.calls[c].osv]
    /\ out = [c \in DOMAIN cfg.calls |-> <<>>]
    /\ ctx = [c \in DOMAIN cfg.calls |-> cfg.calls[c].ctx]
    /\ pc = [c \in DOMAIN cfg.calls |-> "start"]
    /\ ids = [c \in DOMAIN cfg.calls |-> <<>>]
    /\ launched = [c \in DOMAIN cfg.calls |-> 0]
    /\ tpc = [c \in DOMAIN cfg.calls |-> <<>>]
    /\ fetched = [c \in DOMAIN cfg.calls |-> <<>>]
    /\ entries = [c \in DOMAIN cfg.calls |-> <<>>]
    /\ mux = [c \in DOMAIN cfg.calls |-> 0]
    /\ gerr = [c \in DOMAIN cfg.calls |-> NoErr]
    /\ gctx = [c \in DOMAIN cfg.calls |-> FALSE]
    /\ ret = [c \in DOMAIN cfg.calls |-> RetNil(NoErr)]
    /\ aborted = [c \in DOMAIN cfg.calls |-> FALSE]

\* ---------------------------------------------------------------- errgroup
\* The context handed to the tasks (gctx of errgroup.WithContext(ctx)) is
\* cancelled when the caller's is, or when a task has returned an error.
Cancelled(c) == ctx[c] = "cancelled"
GroupCancelled(c) == Cancelled(c) \/ gctx[c]

\* The tasks of call c that hold a slot of the group's semaphore.
Running_NeverReleased(c) == {i \in DOMAIN tpc[c] : tpc[c][i] # "idle"}
Running(c) == {i \in DOMAIN tpc[c] : tpc[c][i] \notin {"idle", "done"}}

\* g.Go(f): blocks while the limit is reached, then starts the task of the
\* next iteration of the launch loop.
GoUnlimited(c, limit) ==
    /\ pc[c] = "group"
    /\ launched[c] < Len(ids[c])
    /\ launched' = [launched EXCEPT ![c] = @ + 1]
    /\ tpc' = [tpc EXCEPT ![c][launched[c] + 1] = "fetch"]
    /\ UNCHANGED <<fetched, src, op, req, idArg, aliasArg, osvArg, out, ctx, pc, ids, entries, mux, gerr,
                   gctx, ret, aborted>>
Go(c, limit) ==
    /\ pc[c] = "group"
    /\ launched[c] < Len(ids[c])
    /\ Cardinality(Running(c)) < limit
    /\ launched' = [launched EXCEPT ![c] = @ + 1]
    /\ tpc' = [tpc EXCEPT ![c][launched[c] + 1] = "fetch"]
    /\ UNCHANGED <<fetched, src, op, req, idArg, aliasArg, osvArg, out, ctx, pc, ids, entries, mux, gerr,
                   gctx, ret, aborted>>

\* The id of task i: the copy (id := id) of the loop variable made in the
\* iteration that starts the task.
TaskID_LoopVariable(c, i) == ids[c][launched[c]]
TaskID(c, i) == ids[c][i]

\* The end of a task started by g.Go: its slot is released, and the first
\* non-nil error is kept and cancels the group's context.
TaskDone(c, i, err) ==
    /\ tpc' = [tpc EXCEPT ![c][i] = "done"]
    /\ gerr' = [gerr EXCEPT ![c] = IF @ = NoErr THEN err ELSE @]
    /\ gctx' = [gctx EXCEPT ![c] = @ \/ err # NoErr]

\* g.Wait() returns when the launch loop is over and every task has ended.
WaitOver_OnFirstError(c) ==
    /\ pc[c] = "group"
    /\ \/ gerr[c] # NoErr
       \/ launched[c] = Len(ids[c]) /\ \A i \in DOMAIN tpc[c] : tpc[c][i] = "done"
WaitOver(c) ==
    /\ pc[c] = "group"
    /\ launched[c] = Len(ids[c])
    /\ \A i \in DOMAIN tpc[c] : tpc[c][i] = "done"

Return(c, r) ==
    /\ pc' = [pc EXCEPT ![c] = "done"]
    /\ ret' = [ret EXCEPT ![c] = r]

\* --------------------------------------------------------------- ByPackage
\* ByPackage up to the launch loop: the modules index is read and scanned
\* for the candidate IDs; an error, or no candidate, ends the call.
ByPackage(c) ==
    /\ op[c] = "ByPackage"
    /\ pc[c] = "start"
    /\ \E b \in GetIndex(src.modules, Cancelled(c)) :
        LET s == ReadModules(b, req[c])
        IN IF s.err # NoErr
           THEN /\ Return(c, RetNil(s.err))
                /\ UNCHANGED <<ids, tpc, fetched>>
           ELSE IF Len(s.ids) = 0
                THEN /\ Return(c, RetNil(NoErr))
                     /\ UNCHANGED <<ids, tpc, fetched>>
                ELSE /\ pc' = [pc EXCEPT ![c] = "group"]
                     /\ ids' = [ids EXCEPT ![c] = s.ids]
                     /\ tpc' = [tpc EXCEPT ![c] = [i \in 1..Len(s.ids) |-> "idle"]]
                     /\ fetched' = [fetched EXCEPT ![c] = [i \in 1..Len(s.ids) |-> NilEntry]]
                     /\ UNCHANGED ret
    /\ UNCHANGED <<src, op, req, idArg, aliasArg, osvArg, out, ctx, launched, entries, mux, gerr,
                   gctx, aborted>>

ByPackageGo(c) == op[c] = "ByPackage" /\ Go(c, ByPackageLimit)

\* The function ByPackage hands to g.Go, from the outcome g of the get to
\* the lock: the error it returns, or that it goes on to append the entry.
fetchResult_SkipMissing(g, r) ==
    LET b == ByID(g)
    IN IF b.err # NoErr THEN [to |-> "done", err |-> b.err]
       ELSE IF b.entry # NilEntry /\ isAffected(b.entry, r)
            THEN [to |-> "lock", err |-> NoErr]
            ELSE [to |-> "done", err |-> NoErr]
fetchResult(g, r) ==
    LET b == ByID(g)
    IN IF b.err # NoErr THEN [to |-> "done", err |-> b.err]
       ELSE IF b.entry = NilEntry THEN [to |-> "done", err |-> "notretrieved"]
            ELSE IF isAffected(b.entry, r) THEN [to |-> "lock", err |-> NoErr]
                 ELSE [to |-> "done", err |-> NoErr]

ByPackageFetch(c, i) ==
    /\ op[c] = "ByPackage"
    /\ tpc[c][i] = "fetch"
    /\ \E g \in Get(src.entry[TaskID(c, i)], GroupCancelled(c)) :
        LET f == fetchResult(g, req[c])
        IN /\ aborted' = [aborted EXCEPT ![c] = @ \/ g.kind = "canceled"]
           /\ fetched' = [fetched EXCEPT ![c][i] = ByID(g).entry]
           /\ IF f.to = "lock"
              THEN /\ tpc' = [tpc EXCEPT ![c][i] = "lock"]
                   /\ UNCHANGED <<gerr, gctx>>
              ELSE TaskDone(c, i, f.err)
    /\ UNCHANGED <<src, op, req, idArg, aliasArg, osvArg, out, ctx, pc, ids, launched, entries, mux,
                   ret>>

\* The buffer the tasks of call c append to: entries, a variable of the call
\* (made anew by each ByPackage), not a field of the Client.
ResultBuffer_OnClient(c) == 1
ResultBuffer(c) == c

\* mux.Lock()
ByPackageLock_NoMutex(c, i) ==
    /\ tpc[c][i] = "lock"
    /\ mux' = [mux EXCEPT ![c] = i]
    /\ tpc' = [tpc EXCEPT ![c][i] = "append"]
    /\ UNCHANGED <<fetched, src, op, req, idArg, aliasArg, osvArg, out, ctx, pc, ids,
                   launched, entries, gerr, gctx, ret, aborted>>
ByPackageLock(c, i) ==
    /\ tpc[c][i] = "lock"
    /\ mux[c] = 0
    /\ mux' = [mux EXCEPT ![c] = i]
    /\ tpc' = [tpc EXCEPT ![c][i] = "append"]
    /\ UNCHANGED <<fetched, src, op, req, idArg, aliasArg, osvArg, out, ctx, pc, ids, launched, entries, gerr,
                   gctx, ret, aborted>>

\* entries = append(entries, entry)
ByPackageAppend(c, i) ==
    /\ tpc[c][i] = "append"
    /\ entries' = [entries EXCEPT ![ResultBuffer(c)] = Append(@, fetched[c][i])]
    /\ tpc' = [tpc EXCEPT ![c][i] = "unlock"]
    /\ UNCHANGED <<fetched, src, op, req, idArg, aliasArg, osvArg, out, ctx, pc, ids, launched, mux, gerr,
                   gctx, ret, aborted>>

\* mux.Unlock(); return nil
ByPackageUnlock(c, i) ==
    /\ tpc[c][i] = "unlock"
    /\ mux' = [mux EXCEPT ![c] = 0]
    /\ TaskDone(c, i, NoErr)
    /\ UNCHANGED <<fetched, src, op, req, idArg, aliasArg, osvArg, out, ctx, pc, ids, launched, entries, ret,
                   aborted>>

\* g.Wait(), the sort and the return.
ByPackageWait(c) ==
    /\ op[c] = "ByPackage"
    /\ WaitOver(c)
    /\ IF gerr[c] # NoErr
       THEN Return(c, RetNil(gerr[c]))
       ELSE Return(c, RetList(SortByID(entries[ResultBuffer(c)])))
    /\ UNCHANGED <<fetched, src, op, req, idArg, aliasArg, osvArg, out, ctx, ids, launched, tpc, entries, mux,
                   gerr, gctx, aborted>>

\* ----------------------------------------------------------------- Entries
\* Entries up to the launch loop: c.ids(ctx) and the make of the buffer.
Entries(c) ==
    /\ op[c] = "Entries"
    /\ pc[c] = "start"
    /\ \E b \in GetIndex(src.vulns, Cancelled(c)) :
        LET s == ReadIDs(b)
        IN IF s.err # NoErr
           THEN /\ Return(c, RetNil(s.err))
                /\ UNCHANGED <<ids, tpc, fetched, entries>>
           ELSE /\ pc' = [pc EXCEPT ![c] = "group"]
                /\ ids' = [ids EXCEPT ![c] = s.ids]
                /\ tpc' = [tpc EXCEPT ![c] = [i \in 1..Len(s.ids) |-> "idle"]]
                /\ fetched' = [fetched EXCEPT ![c] = [i \in 1..Len(s.ids) |-> NilEntry]]
                /\ entries' = [entries EXCEPT ![c] = [i \in 1..Len(s.ids) |-> NilEntry]]
                /\ UNCHANGED ret
    /\ UNCHANGED <<src, op, req, idArg, aliasArg, osvArg, out, ctx, launched, mux, gerr, gctx,
                   aborted>>

EntriesGo(c) == op[c] = "Entries" /\ Go(c, EntriesLimit)

\* The slot of the buffer task i writes: the copy (i := i) of the loop index
\* made in the iteration that starts the task.
TaskSlot_LoopVariable(c, i) == launched[c]
TaskSlot(c, i) == i

\* The function Entries hands to g.Go.
EntriesFetch(c, i) ==
    /\ op[c] = "Entries"
    /\ tpc[c][i] = "fetch"
    /\ \E g \in Get(src.entry[TaskID(c, i)], GroupCancelled(c)) :
        LET b == ByID(g)
        IN /\ aborted' = [aborted EXCEPT ![c] = @ \/ g.kind = "canceled"]
           /\ fetched' = [fetched EXCEPT ![c][i] = b.entry]
           /\ IF b.err # NoErr
              THEN /\ TaskDone(c, i, b.err)
                   /\ UNCHANGED entries
              ELSE /\ entries' = [entries EXCEPT ![c][TaskSlot(c, i)] = b.entry]
                   /\ TaskDone(c, i, NoErr)
    /\ UNCHANGED <<src, op, req, idArg, aliasArg, osvArg, out, ctx, pc, ids, launched, mux, ret>>

EntriesWait(c) ==
    /\ op[c] = "Entries"
    /\ WaitOver(c)
    /\ IF gerr[c] # NoErr
       THEN Return(c, RetNil(gerr[c]))
       ELSE Return(c, RetList(entries[c]))
    /\ UNCHANGED <<fetched, src, op, req, idArg, aliasArg, osvArg, out, ctx, ids, launched, tpc, entries, mux,
                   gerr, gctx, aborted>>

\* -------------------------------------------------------------------- ByID
\* A call of ByID by the client's user.
ByIDCall(c) ==
    /\ op[c] = "ByID"
    /\ pc[c] = "start"
    /\ \E g \in Get(src.entry[idArg[c]], Cancelled(c)) :
        LET b == ByID(g)
        IN /\ aborted' = [aborted EXCEPT ![c] = @ \/ g.kind = "canceled"]
           /\ Return(c, [isNil |-> b.entry = NilEntry,
                         entries |-> IF b.entry = NilEntry THEN <<>> ELSE <<b.entry>>,
                         id |-> 0,
                         err |-> b.err])
    /\ UNCHANGED <<fetched, src, op, req, idArg, aliasArg, osvArg, out, ctx, ids, launched, tpc, entries, mux,
                   gerr, gctx>>

\* ----------------------------------------------------------------- ByAlias
ByAlias(c) ==
    /\ op[c] = "ByAlias"
    /\ pc[c] = "start"
    /\ \E b \in GetIndex(src.vulns, Cancelled(c)) :
        LET s == ReadAliases(b, aliasArg[c])
        IN Return(c, RetID(s.id, s.err))
    /\ UNCHANGED <<src, op, req, idArg, aliasArg, osvArg, out, ctx, ids, launched, tpc, fetched,
                   entries, mux, gerr, gctx, aborted>>

\* ----------------------------------------------------- affected components
\* A call of collectRangePairs(a).
collectRangePairsCall(c) ==
    /\ op[c] = "collectRangePairs"
    /\ pc[c] = "start"
    /\ pc' = [pc EXCEPT ![c] = "done"]
    /\ out' = [out EXCEPT ![c] = collectRangePairs(osvArg[c])]
    /\ UNCHANGED <<src, op, req, idArg, aliasArg, osvArg, ctx, ids, launched, tpc,
                   fetched, entries, mux, gerr, gctx, ret, aborted>>

\* A call of AffectedComponents(e).
AffectedComponentsCall(c) ==
    /\ op[c] = "AffectedComponents"
    /\ pc[c] = "start"
    /\ pc' = [pc EXCEPT ![c] = "done"]
    /\ out' = [out EXCEPT ![c] = AffectedComponents(osvArg[c])]
    /\ UNCHANGED <<src, op, req, idArg, aliasArg, osvArg, ctx, ids, launched, tpc,
                   fetched, entries, mux, gerr, gctx, ret, aborted>>

\* The caller cancels the context of a call that has not returned.
Cancel(c) ==
    /\ ctx[c] = "live"
    /\ pc[c] # "done"
    /\ ctx' = [ctx EXCEPT ![c] = "cancelled"]
    /\ UNCHANGED <<fetched, src, op, req, idArg, aliasArg, osvArg, out, pc, ids, launched, tpc, entries, mux,
                   gerr, gctx, ret, aborted>>

Next ==
    \/ \E c \in Calls : ByPackage(c)
    \/ \E c \in Calls : ByPackageGo(c)
    \/ \E c \in Calls : \E i \in DOMAIN tpc[c] : ByPackageFetch(c, i)
    \/ \E c \in Calls : \E i \in DOMAIN tpc[c] : ByPackageLock(c, i)
    \/ \E c \in Calls : \E i \in DOMAIN tpc[c] : ByPackageAppend(c, i)
    \/ \E c \in Calls : \E i \in DOMAIN tpc[c] : ByPackageUnlock(c, i)
    \/ \E c \in Calls : ByPackageWait(c)
    \/ \E c \in Calls : Entries(c)
    \/ \E c \in Calls : EntriesGo(c)
    \/ \E c \in Calls : \E i \in DOMAIN tpc[c] : EntriesFetch(c, i)
    \/ \E c \in Calls : EntriesWait(c)
    \/ \E c \in Calls : ByIDCall(c)
    \/ \E c \in Calls : ByAlias(c)
    \/ \E c \in Calls : collectRangePairsCall(c)
    \/ \E c \in Calls : AffectedComponentsCall(c)
    \/ \E c \in Calls : Cancel(c)

\* -------------------------------------------------------- configurations
SeqsUpTo(S, n) == UNION {[1..k -> S] : k \in 0..n}

\* Introduced at "0" and never fixed: every version is affected.
AlwaysRange == <<SemverRange(<<Event(1, 0)>>)>>
\* A record that affects module "m", and one that affects module "n" only.
Affecting(id) == Entry(id, <<Group("m", AlwaysRange, <<>>)>>)
Other(id) == Entry(id, <<Group("n", AlwaysRange, <<>>)>>)

\* The record store: every ID holds a record affecting "m", but for at most
\* one ID, which holds another record, nothing, an unreadable record or a
\* failing get.
Faults ==
    {[id |-> 0, doc |-> NotFoundDoc]}
    \cup UNION {{[id |-> i, doc |-> d] :
                    d \in {EntryDoc(Other(i)), NotFoundDoc, ErrorDoc, MalformedDoc}} :
                i \in IDs}
Store(f) == [i \in IDs |-> IF i = f.id THEN f.doc ELSE EntryDoc(Affecting(i))]

\* The index documents that list the IDs of l (for module "m", with no fix).
ModulesOf(l) == IndexOf(<<ModuleMeta("m", [k \in DOMAIN l |-> ModuleVuln(l[k], 0)])>>)
VulnsOf(l) == IndexOf([k \in DOMAIN l |-> VulnMeta(l[k], <<>>)])

MainReq == PackageRequest("m", "", 1)

\* Index documents that cannot be read, or not to the end.
BrokenModules ==
    {IndexErr, IndexEmpty,
     IndexOf(<<BadModuleMeta, ModuleMeta("m", <<ModuleVuln(1, 0)>>)>>),
     IndexOf(<<ModuleMeta("n", <<ModuleVuln(1, 0)>>), BadModuleMeta>>),
     IndexOf(<<ModuleMeta("m", <<ModuleVuln(1, 0)>>), BadModuleMeta>>)}
BrokenVulns ==
    {IndexErr, IndexEmpty, IndexOf(<<VulnMeta(1, <<>>), BadVulnMeta>>)}

\* The Source that lists the IDs of l in both indexes, with the fault f.
MainSrc(l, f) == [modules |-> ModulesOf(l), vulns |-> VulnsOf(l), entry |-> Store(f)]
NoFault == [id |-> 0, doc |-> NotFoundDoc]
OneCall(s, call) == [src |-> s, calls |-> <<call>>]

\* ByPackage and Entries on every list of up to MaxVulns IDs and every fault.
InitMain ==
    \E l \in SeqsUpTo(IDs, MaxVulns), f \in Faults, o \in {"ByPackage", "Entries"} :
        InitWith(OneCall(MainSrc(l, f), Call(o, MainReq, 0, "live")))
\* ByID of every ID on every fault.
InitByID ==
    \E f \in Faults, i \in IDs :
        InitWith(OneCall(MainSrc(<<>>, f), Call("ByID", NoReq, i, "live")))
\* ByPackage and Entries on indexes that cannot be read.
InitBroken ==
    \E m \in BrokenModules, v \in BrokenVulns, o \in {"ByPackage", "Entries"} :
        InitWith(OneCall([modules |-> m, vulns |-> v, entry |-> Store(NoFault)],
                         Call(o, MainReq, 0, "live")))

\* Records of one ID with up to MaxGroups groups: each group is of module
\* "m" or "n", is fixed at version 2 (so affects version 1 only) or is
\* introduced at version 2 and never fixed, and lists no package, "q", or
\* "q" and "p".
FixedAt2 == <<SemverRange(<<Event(1, 0), Event(0, 2)>>)>>
From2 == <<SemverRange(<<Event(2, 0)>>)>>
PackageLists == {<<>>, <<Pkg("q")>>, <<Pkg("q"), Pkg("p")>>}
Groups ==
    {Group(m, rs, ps) : m \in {"m", "n"}, rs \in {FixedAt2, From2}, ps \in PackageLists}
Records == {Entry(1, a) : a \in SeqsUpTo(Groups, MaxGroups)}

\* The highest fixed version of the intervals of e for module m, 0 (empty)
\* when one of them has no fix: the Fixed the database's index gives.
GroupIntervals(e, m) ==
    UNION {UNION {{ps[k] : k \in 1..Len(ps)} :
                  ps \in {Intervals(e.Affected[g].Ranges[r].Events, 0) :
                          r \in 1..Len(e.Affected[g].Ranges)}} :
           g \in {g \in 1..Len(e.Affected) : e.Affected[g].Module.Path = m}}
HighestFixed(e, m) ==
    LET fs == {p.Fixed : p \in GroupIntervals(e, m)}
    IN IF fs = {} \/ 0 \in fs THEN 0
       ELSE CHOOSE f \in fs : \A x \in fs : x <= f

\* One record, listed under "m" with no Fixed or with its highest fixed
\* version, asked for with every package filter and version.
InitFilter ==
    \E e \in Records, p \in {"", "p"}, v \in Versions :
        \E fx \in {0, HighestFixed(e, "m")} :
            InitWith(OneCall(
                [modules |-> IndexOf(<<ModuleMeta("m", <<ModuleVuln(1, fx)>>)>>),
                 vulns |-> VulnsOf(<<1>>),
                 entry |-> [i \in IDs |-> IF i = 1 THEN EntryDoc(e) ELSE NotFoundDoc]],
                Call("ByPackage", PackageRequest("m", p, v), 0, "live")))

\* A request with an empty Module, on an index with or without an element
\* of empty path, and a record with or without a group of empty module path.
InitEmptyModule ==
    \E ms \in {<<>>, <<ModuleMeta("m", <<ModuleVuln(1, 0)>>)>>,
               <<ModuleMeta("m", <<>>), ModuleMeta("", <<ModuleVuln(1, 0)>>)>>},
       d \in {NotFoundDoc, EntryDoc(Affecting(1)),
              EntryDoc(Entry(1, <<Group("", AlwaysRange, <<>>)>>))},
       p \in {"", "p"} :
        InitWith(OneCall(
            [modules |-> IndexOf(ms),
             vulns |-> VulnsOf(<<1>>),
             entry |-> [i \in IDs |-> IF i = 1 THEN d ELSE NotFoundDoc]],
            Call("ByPackage", PackageRequest("", p, 1), 0, "live")))

\* More IDs than the limit of the group: ByPackage under a context that is
\* never cancelled, Entries under one that may be; the first record
\* affects "m", the others do not.
ManyIDs(limit) == 1..(limit + Excess)
ManyList(limit) == [k \in ManyIDs(limit) |-> k]
ManySrc(limit) ==
    [modules |-> ModulesOf(ManyList(limit)),
     vulns |-> VulnsOf(ManyList(limit)),
     entry |-> [i \in ManyIDs(limit) |->
                   EntryDoc(IF i = 1 THEN Affecting(i) ELSE Other(i))]]
InitMany ==
    \/ InitWith(OneCall(ManySrc(ByPackageLimit),
                        Call("ByPackage", MainReq, 0, "background")))
    \/ InitWith(OneCall(ManySrc(EntriesLimit), Call("Entries", MainReq, 0, "live")))
    \/ InitWith(OneCall([ManySrc(EntriesLimit) EXCEPT !.entry[1] = MalformedDoc],
                        Call("Entries", MainReq, 0, "background")))

\* ByAlias of an alias that entries may have ("a") and of one that none has
\* ("c"), on every ID index of up to MaxVulns elements, each an element that
\* does not decode or an ID with no alias, with "a", or with "b" and "a".
AliasLists == {<<>>, <<"a">>, <<"b", "a">>}
AliasElems == {BadVulnMeta} \cup {VulnMeta(i, al) : i \in IDs, al \in AliasLists}
InitAlias ==
    \E b \in {IndexErr, IndexEmpty}
              \cup {IndexOf(l) : l \in SeqsUpTo(AliasElems, MaxVulns)},
       al \in {"a", "c"} :
        InitWith([src |-> [modules |-> ModulesOf(<<>>), vulns |-> b,
                           entry |-> Store(NoFault)],
                  calls |-> <<AliasCall(al, "live")>>])

\* A record that affects both "m" and "n".
Both(id) == Entry(id, <<Group("m", AlwaysRange, <<>>), Group("n", AlwaysRange, <<>>)>>)
\* Two concurrent ByPackage calls on one client, for "m" and for "n": the
\* index lists IDs 1 and 2 under "m" and 2, or 2 and 1, under "n"; each of
\* the two records affects "m", "n" or both, or is missing.
TwoDocs(i) == {EntryDoc(Affecting(i)), EntryDoc(Other(i)), EntryDoc(Both(i)), NotFoundDoc}
InitTwo ==
    \E d1 \in TwoDocs(1), d2 \in TwoDocs(2), l \in {<<2>>, <<2, 1>>} :
        InitWith(
            [src |-> [modules |-> IndexOf(<<
                          ModuleMeta("m", <<ModuleVuln(1, 0), ModuleVuln(2, 0)>>),
                          ModuleMeta("n", [k \in DOMAIN l |-> ModuleVuln(l[k], 0)])>>),
                      vulns |-> VulnsOf(<<1, 2>>),
                      entry |-> [i \in IDs |-> IF i = 1 THEN d1
                                               ELSE IF i = 2 THEN d2 ELSE NotFoundDoc]],
             calls |-> <<Call("ByPackage", PackageRequest("m", "", 1), 0, "background"),
                         Call("ByPackage", PackageRequest("n", "", 1), 0, "background")>>])

\* The ranges of a group fixed at version f with no lower bound, or
\* introduced at the zero version: a lone Fixed event, an Introduced event
\* then a Fixed one, or one event with both.
FixedRanges(f) ==
    {<<SemverRange(<<Event(0, f)>>)>>,
     <<SemverRange(<<Event(1, 0), Event(0, f)>>)>>,
     <<SemverRange(<<Event(1, f)>>)>>}
\* One record of one group of "m" fixed at f, listed with f or with no
\* Fixed, asked for with no package filter at every version.
InitFixed ==
    \E f \in 2..MaxVer, v \in Versions, ps \in PackageLists :
        \E rs \in FixedRanges(f), fx \in {0, f} :
            InitWith(OneCall(
                [modules |-> IndexOf(<<ModuleMeta("m", <<ModuleVuln(1, fx)>>)>>),
                 vulns |-> VulnsOf(<<1>>),
                 entry |-> [i \in IDs |-> IF i = 1
                                           THEN EntryDoc(Entry(1, <<Group("m", rs, ps)>>))
                                           ELSE NotFoundDoc]],
                Call("ByPackage", PackageRequest("m", "", v), 0, "live")))

\* The events of the ranges given to collectRangePairs: a lower bound, a
\* fix, and both at once; the ranges are semver ranges or ranges of a type
\* that is not known, of up to MaxEvents events.
PairEvents == {Event("1.2", ""), Event("", "1.5"), Event("2.1", "2.3")}
PairRanges ==
    {Range(t, ev) : t \in {"SEMVER", "unspecified"}, ev \in SeqsUpTo(PairEvents, MaxEvents)}
\* No range, one range and two ranges.
RangeLists ==
    {<<>>} \cup {<<r>> : r \in PairRanges} \cup {<<r, q>> : r \in PairRanges, q \in PairRanges}
\* The group of TestCollectRangePairs.
TestAffected ==
    Group("github.com/a/b",
          <<Range("SEMVER", <<Event("", "0.5")>>),
            Range("SEMVER", <<Event("1.2", ""), Event("", "1.5"), Event("2.1", "2.3")>>),
            Range("unspecified", <<Event("a", "b")>>)>>,
          <<>>)
NoSrc == [modules |-> IndexOf(<<>>), vulns |-> IndexOf(<<>>), entry |-> Store(NoFault)]
InitPairs ==
    \/ \E rs \in RangeLists :
           InitWith(OneCall(NoSrc, PureCall("collectRangePairs", Group("m", rs, <<>>))))
    \/ InitWith(OneCall(NoSrc, PureCall("collectRangePairs", TestAffected)))

\* The symbols of TestAffectedComponents: F, g, S.f, S.F, s.F, s.f.
TestSymbols == <<<<"F">>, <<"g">>, <<"S", "f">>, <<"S", "F">>, <<"s", "F">>, <<"s", "f">>>>
Symbols == {TestSymbols[k] : k \in DOMAIN TestSymbols}
\* The entries of TestAffectedComponents "multiple symbols" and "multiple
\* pkgs and modules".
TestSymbolsEntry ==
    Entry(2, <<Group("example.com/mod", <<>>,
                     <<Package("example.com/mod/pkg", TestSymbols)>>)>>)
TestModulesEntry ==
    Entry(4, <<Group("example.com/mod", <<Range("SEMVER", <<Event("", "1.5")>>)>>, <<>>),
               Group("example.com/mod1", <<>>,
                     <<Package("example.com/mod1/pkg1", <<>>),
                       Package("example.com/mod1/pkg2", <<<<"F">>>>)>>),
               Group("example.com/mod2", <<>>,
                     <<Package("example.com/mod2/pkg3", <<<<"g">>, <<"H">>>>)>>)>>)
\* AffectedComponents of a record of one package with every list of up to
\* MaxSymbols symbols, and of the records of the test.
InitSymbols ==
    \/ \E l \in SeqsUpTo(Symbols, MaxSymbols) :
           InitWith(OneCall(NoSrc, PureCall("AffectedComponents",
               Entry(1, <<Group("m", <<>>, <<Package("m/p", l)>>)>>))))
    \/ \E e \in {TestSymbolsEntry, TestModulesEntry} :
           InitWith(OneCall(NoSrc, PureCall("AffectedComponents", e)))

\* The event lists of TestAffectedComponents_Versions.
TestVersionEvents ==
    {<<>>,
     <<Event("", "1.5")>>,
     <<Event("1.5", ""), Event("", "1.10")>>,
     <<Event("1.5", "1.10"), Event("", "2.3")>>}
\* AffectedComponents of a record of one group, with no package or with
\* one: with every list of up to two ranges, and with one semver range of
\* the events of the test.
InitVersions ==
    \E ps \in {<<>>, <<Package("example.com/p", <<>>)>>} :
        \/ \E rs \in RangeLists :
               InitWith(OneCall(NoSrc, PureCall("AffectedComponents",
                   Entry(1, <<Group("example.com/p", rs, ps)>>))))
        \/ \E ev \in TestVersionEvents :
               InitWith(OneCall(NoSrc, PureCall("AffectedComponents",
                   Entry(1, <<Group("example.com/p", <<Range("SEMVER", ev)>>, ps)>>))))

Init ==
    \/ InitMain
    \/ InitByID
    \/ InitBroken
    \/ InitFilter
    \/ InitEmptyModule
    \/ InitMany
    \/ InitAlias
    \/ InitTwo
    \/ InitFixed
    \/ InitPairs
    \/ InitSymbols
    \/ InitVersions
Spec == Init /\ [][Next]_vars

\* The calls that start goroutines, ByPackage and Entries, under fairness.
\* Their inputs are the families that decide which steps a call takes: every
\* index and fault (InitMain, InitBroken), the empty module, more IDs than
\* the limit (InitMany), two calls at once (InitTwo) and the pre-filter
\* (InitFixed).  What a record's groups hold only decides whether a task
\* appends, which these families already do both ways.
GoInit ==
    \/ InitMain
    \/ InitBroken
    \/ InitEmptyModule
    \/ InitMany
    \/ InitTwo
    \/ InitFixed
\* The steps of the client: every step but the caller's cancellation.  The
\* Go scheduler runs a goroutine that can run, and every get returns, so a
\* step of the client that stays possible is taken in the end; whether and
\* when the caller cancels is left open.
Progress ==
    \/ \E c \in Calls : ByPackage(c)
    \/ \E c \in Calls : ByPackageGo(c)
    \/ \E c \in Calls : \E i \in DOMAIN tpc[c] : ByPackageFetch(c, i)
    \/ \E c \in Calls : \E i \in DOMAIN tpc[c] : ByPackageLock(c, i)
    \/ \E c \in Calls : \E i \in DOMAIN tpc[c] : ByPackageAppend(c, i)
    \/ \E c \in Calls : \E i \in DOMAIN tpc[c] : ByPackageUnlock(c, i)
    \/ \E c \in Calls : ByPackageWait(c)
    \/ \E c \in Calls : Entries(c)
    \/ \E c \in Calls : EntriesGo(c)
    \/ \E c \in Calls : \E i \in DOMAIN tpc[c] : EntriesFetch(c, i)
    \/ \E c \in Calls : EntriesWait(c)
GoNext ==
    \/ Progress
    \/ \E c \in Calls : Cancel(c)
FairSpec == GoInit /\ [][GoNext]_vars /\ WF_vars(Progress)

\* ------------------------------------------------------------------ claims
Done(c) == pc[c] = "done"
Succeeded(c) == Done(c) /\ ret[c].err = NoErr
\* What the Source holds for task i of call c.
DocOf(c, i) == src.entry[ids[c][i]]

\* C1: ByID returns (nil, nil) when the record key is not found, and a
\* non-nil error and no record when the get fails with another transport
\* error.
C1_ByIDSurfacesTransportErrors ==
    \A c \in Calls :
        (op[c] = "ByID" /\ Done(c)) =>
            /\ (src.entry[idArg[c]].kind = "notfound" /\ ~aborted[c])
                   => (ret[c].isNil /\ ret[c].err = NoErr)
            /\ (src.entry[idArg[c]].kind = "error" \/ aborted[c])
                   => (ret[c].isNil /\ ret[c].err # NoErr)

\* C2: ByPackage with a request whose Module is empty returns no entries,
\* whatever the index and the database hold.
C2_EmptyModuleEmptyResult ==
    \A c \in Calls :
        (op[c] = "ByPackage" /\ req[c].Module = "" /\ Done(c)) =>
            ret[c].entries = <<>>

\* C3: ByPackage is all-or-nothing: when the fetch of a candidate fails (by
\* a transport error, a cancellation or bytes that do not decode) or a
\* candidate has no record, it returns a non-nil error and a nil list; a
\* list is returned only when every candidate was read.
C3_ByPackageAllOrNothing ==
    \A c \in Calls :
        (op[c] = "ByPackage" /\ Done(c)) =>
            /\ ((\E i \in DOMAIN ids[c] : DocOf(c, i).kind # "bytes") \/ aborted[c])
                   => (ret[c].err # NoErr /\ ret[c].isNil /\ ret[c].entries = <<>>)
            /\ ret[c].err # NoErr => (ret[c].isNil /\ ret[c].entries = <<>>)
            /\ ~ret[c].isNil =>
                   \A i \in DOMAIN ids[c] : fetched[c][i] = DocOf(c, i).entry

\* C3's case: a candidate without a record ends the call with an error
\* after another candidate's record was appended to the buffer.
C3_Witness ==
    \E c \in Calls :
        /\ op[c] = "ByPackage" /\ Done(c)
        /\ \E i \in DOMAIN ids[c] : DocOf(c, i).kind = "notfound"
        /\ entries[c] # <<>>
        /\ ret[c].err # NoErr /\ ret[c].isNil

\* C4: Entries aborts on any single fetch failure: when the record of an ID
\* of the index cannot be retrieved it returns a non-nil error and no
\* entries, so a list returned without error has no nil element.
C4_EntriesAbortsOnFetchFailure ==
    \A c \in Calls :
        (op[c] = "Entries" /\ Done(c)) =>
            /\ ((\E i \in DOMAIN ids[c] : DocOf(c, i).kind \in {"notfound", "error"})
                \/ aborted[c])
                   => (ret[c].err # NoErr /\ ret[c].entries = <<>>)
            /\ ret[c].err = NoErr =>
                   \A k \in DOMAIN ret[c].entries : ret[c].entries[k] # NilEntry

\* C5: when a record fetch of ByPackage or Entries was aborted by the
\* cancellation of the caller's context, the call returns a non-nil error.
C5_CancelledCallReturnsError ==
    \A c \in Calls :
        (op[c] \in {"ByPackage", "Entries"} /\ Done(c) /\ aborted[c]) =>
            ret[c].err # NoErr

\* C6: at most 10 fetch tasks of one ByPackage call run at the same time,
\* and at most 4 of one Entries call, whatever the number of IDs to fetch.
C6_ConcurrencyCeiling ==
    \A c \in Calls :
        /\ op[c] = "ByPackage" => Cardinality(Running(c)) <= ByPackageLimit
        /\ op[c] = "Entries" => Cardinality(Running(c)) <= EntriesLimit

\* C6's case: more candidates than the limit, the limit reached and the
\* launch loop held back with a task still to start.
C6_Witness ==
    \E c \in Calls :
        /\ op[c] = "ByPackage"
        /\ Len(ids[c]) > ByPackageLimit
        /\ Cardinality(Running(c)) = ByPackageLimit
        /\ launched[c] < Len(ids[c])

\* The records of a returned list, and the groups of a record, as sets.
Returned(c) == {ret[c].entries[k] : k \in DOMAIN ret[c].entries}
GroupsOf(e) == {e.Affected[k] : k \in DOMAIN e.Affected}
PathsOf(a) ==
    {a.EcosystemSpecific.Packages[k].Path : k \in DOMAIN a.EcosystemSpecific.Packages}

\* One group that by itself has the module of the request, affects its
\* version and passes its package filter.
GroupMatches(a, r) ==
    /\ a.Module.Path = r.Module
    /\ AffectsSemver(a.Ranges, r.Version)
    /\ (r.Package = "" \/ PathsOf(a) = {} \/ r.Package \in PathsOf(a))

\* C7: a record fetched by a ByPackage call is in the returned list if and
\* only if one of its groups by itself has the module of the request,
\* affects the requested version and passes the package filter.
C7_KeptIffOneGroupMatches ==
    \A c \in Calls :
        (op[c] = "ByPackage" /\ Succeeded(c)) =>
            \A i \in DOMAIN ids[c] :
                (fetched[c][i] \in Returned(c))
                    <=> (\E a \in GroupsOf(fetched[c][i]) : GroupMatches(a, req[c]))

\* C7's case: a package filter, and a fetched record left out although its
\* groups meet the three conditions between them: one group has the module
\* and the version but lists only a sibling package, another one passes the
\* package filter.
C7_Witness ==
    \E c \in Calls :
        /\ op[c] = "ByPackage" /\ Succeeded(c)
        /\ req[c].Package # ""
        /\ \E i \in DOMAIN ids[c] :
            /\ fetched[c][i] # NilEntry
            /\ fetched[c][i] \notin Returned(c)
            /\ \E a \in GroupsOf(fetched[c][i]) :
                   /\ a.Module.Path = req[c].Module
                   /\ AffectsSemver(a.Ranges, req[c].Version)
                   /\ PathsOf(a) # {} /\ req[c].Package \notin PathsOf(a)
            /\ \E a \in GroupsOf(fetched[c][i]) : packageMatches(a, req[c])

\* The number of elements of s with the ID id.
RECURSIVE CountID(_, _)
CountID(s, id) ==
    IF s = <<>> THEN 0
    ELSE (IF Head(s).ID = id THEN 1 ELSE 0) + CountID(Tail(s), id)
RECURSIVE CountIn(_, _)
CountIn(s, x) ==
    IF s = <<>> THEN 0
    ELSE (IF Head(s) = x THEN 1 ELSE 0) + CountIn(Tail(s), x)

\* What a successful ByPackage call returns, from the database and the
\* request alone: for each ID in ascending order, its record once for each
\* time the ID is a candidate, when the record passes the filter.
RECURSIVE Repeat(_, _)
Repeat(x, n) == IF n = 0 THEN <<>> ELSE <<x>> \o Repeat(x, n - 1)
RECURSIVE ExpectedFrom(_, _, _)
ExpectedFrom(id, cands, r) ==
    IF id \notin DOMAIN src.entry THEN <<>>
    ELSE (IF isAffected(src.entry[id].entry, r)
          THEN Repeat(src.entry[id].entry, CountIn(cands, id))
          ELSE <<>>)
         \o ExpectedFrom(id + 1, cands, r)
IndexCandidates(r) == ReadModules(src.modules, r).ids

\* C8: the list a successful ByPackage call returns is sorted by ID in
\* ascending order and is the same for every completion order of the
\* tasks: it is the one list the database and the request determine.
C8_ResultSortedAndDeterministic ==
    \A c \in Calls :
        (op[c] = "ByPackage" /\ Succeeded(c)) =>
            /\ \A k \in DOMAIN ret[c].entries : \A l \in DOMAIN ret[c].entries :
                   k < l => ret[c].entries[k].ID <= ret[c].entries[l].ID
            /\ ret[c].entries = ExpectedFrom(1, IndexCandidates(req[c]), req[c])

\* C8's case: the tasks appended the records in another order than the one
\* returned.
C8_Witness ==
    \E c \in Calls :
        /\ op[c] = "ByPackage" /\ Succeeded(c)
        /\ Len(ret[c].entries) >= 2
        /\ entries[c] # ret[c].entries

\* No two elements of s have the same ID.
NoRepeatedID(s) == \A k \in DOMAIN s : \A l \in DOMAIN s : s[k].ID = s[l].ID => k = l

\* The Vulns of the index element ByPackage takes for the request.
RECURSIVE MatchedVulns(_, _)
MatchedVulns(elems, r) ==
    IF elems = <<>> \/ ~Head(elems).ok THEN <<>>
    ELSE IF Head(elems).Path = r.Module THEN Head(elems).Vulns
         ELSE MatchedVulns(Tail(elems), r)
Listed(r) == MatchedVulns(src.modules.elems, r)

\* C9, as stated: the list returned by ByPackage with an empty package
\* filter has no two elements with the same ID, also when the index entry
\* of the module names an ID more than once.
C9_ResultDeduplicated ==
    \A c \in Calls :
        (op[c] = "ByPackage" /\ Succeeded(c) /\ req[c].Package = "") =>
            NoRepeatedID(ret[c].entries)

\* C9, amended: the list returned by ByPackage with an empty package filter
\* has no two elements with the same ID when the index entry of the module
\* names each ID at most once.
C9_NoRepeatWhenIndexHasNone ==
    \A c \in Calls :
        (op[c] = "ByPackage" /\ Succeeded(c) /\ req[c].Package = ""
         /\ NoRepeatedID(Listed(req[c]))) =>
            NoRepeatedID(ret[c].entries)

\* C9's case: an index entry of distinct IDs and a returned list of two
\* records.
C9_Witness ==
    \E c \in Calls :
        /\ op[c] = "ByPackage" /\ Succeeded(c) /\ req[c].Package = ""
        /\ NoRepeatedID(Listed(req[c]))
        /\ Len(ret[c].entries) >= 2

\* The index gives, for every listed ID with a record, the highest fixed
\* version of the record for the module (empty when a range has no fix).
IndexFixedIsHighest(r) ==
    \A k \in DOMAIN Listed(r) :
        LET v == Listed(r)[k]
        IN (v.ID \in DOMAIN src.entry /\ src.entry[v.ID].kind = "bytes") =>
               v.Fixed = HighestFixed(src.entry[v.ID].entry, r.Module)

\* C10: the pre-filter of ByPackage never under-selects: a listed ID is a
\* candidate when its Fixed is empty or the requested version is strictly
\* before it, and when the index gives the highest fixed version of each
\* record, every listed record that has a matching group is in the list a
\* successful call returns.
C10_PrefilterNeverUnderSelects ==
    \A c \in Calls :
        (op[c] = "ByPackage" /\ src.modules.kind = "array") =>
            /\ (pc[c] = "group" \/ Succeeded(c)) =>
                   \A k \in DOMAIN Listed(req[c]) :
                       LET v == Listed(req[c])[k]
                       IN (v.Fixed = 0 \/ req[c].Version < v.Fixed)
                              => \E i \in DOMAIN ids[c] : ids[c][i] = v.ID
            /\ (Succeeded(c) /\ IndexFixedIsHighest(req[c])) =>
                   \A k \in DOMAIN Listed(req[c]) :
                       LET v == Listed(req[c])[k]
                       IN (/\ v.ID \in DOMAIN src.entry
                           /\ src.entry[v.ID].kind = "bytes"
                           /\ \E a \in GroupsOf(src.entry[v.ID].entry) :
                                  GroupMatches(a, req[c]))
                              => src.entry[v.ID].entry \in Returned(c)

\* C10's case: a record listed with its highest fixed version, asked for at
\* a version before it, and returned.
C10_Witness ==
    \E c \in Calls :
        /\ op[c] = "ByPackage" /\ Succeeded(c)
        /\ IndexFixedIsHighest(req[c])
        /\ \E k \in DOMAIN Listed(req[c]) :
               /\ Listed(req[c])[k].Fixed # 0
               /\ req[c].Version < Listed(req[c])[k].Fixed
               /\ src.entry[Listed(req[c])[k].ID].entry \in Returned(c)

\* What ByID gives for the record the Source holds under id, when the get is
\* not aborted.
RecordOf(id) == ByID(src.entry[id]).entry
\* The IDs of the elements of the global ID index, in index order.
IndexIDs == [k \in DOMAIN src.vulns.elems |-> src.vulns.elems[k].ID]

\* C11: Entries preserves the order of the index under every interleaving
\* of its tasks: the list a successful call returns has as many elements as
\* the global ID index, and its element i is the record fetched for the
\* i-th ID of the index.
C11_EntriesKeepsIndexOrder ==
    \A c \in Calls :
        (op[c] = "Entries" /\ Succeeded(c)) =>
            /\ ~ret[c].isNil
            /\ Len(ret[c].entries) = Len(src.vulns.elems)
            /\ \A i \in DOMAIN ret[c].entries :
                   /\ ret[c].entries[i] = fetched[c][i]
                   /\ ret[c].entries[i] \in {RecordOf(IndexIDs[i]), NilEntry}
                   /\ ~aborted[c] => ret[c].entries[i] = RecordOf(IndexIDs[i])

\* C11's case: an index that lists two IDs in descending order, and a
\* returned list with the two records.
C11_Witness ==
    \E c \in Calls :
        /\ op[c] = "Entries" /\ Succeeded(c)
        /\ Len(ret[c].entries) = 2
        /\ IndexIDs[1] > IndexIDs[2]
        /\ ret[c].entries[1].ID = IndexIDs[1]
        /\ ret[c].entries[2].ID = IndexIDs[2]

\* Element k of the ID index decodes and has the alias al.
HasAlias(k, al) ==
    /\ src.vulns.elems[k].ok
    /\ \E j \in DOMAIN src.vulns.elems[k].Aliases : src.vulns.elems[k].Aliases[j] = al
\* Element k is the first one with the alias, and every one before decodes.
FirstWithAlias(k, al) ==
    /\ HasAlias(k, al)
    /\ \A j \in 1..(k - 1) : src.vulns.elems[j].ok /\ ~HasAlias(j, al)
\* The ID index is read to its end and no element has the alias.
ReadWithoutAlias(al) ==
    /\ src.vulns.kind = "array"
    /\ \A k \in DOMAIN src.vulns.elems : src.vulns.elems[k].ok /\ ~HasAlias(k, al)

\* C12: ByAlias returns the ID of the first element of the ID index, in
\* index order, whose aliases contain the alias; it returns NotFound exactly
\* when the index was read to its end and no element has the alias; a get
\* of the index that fails gives an error that is not NotFound.
C12_ByAliasFirstMatchOrNotFound ==
    \A c \in Calls :
        (op[c] = "ByAlias" /\ Done(c)) =>
            /\ ret[c].err = NoErr =>
                   \E k \in DOMAIN src.vulns.elems :
                       FirstWithAlias(k, aliasArg[c]) /\ ret[c].id = src.vulns.elems[k].ID
            /\ (ctx[c] = "live" /\ src.vulns.kind = "array") =>
                   \A k \in DOMAIN src.vulns.elems :
                       FirstWithAlias(k, aliasArg[c]) =>
                           (ret[c].err = NoErr /\ ret[c].id = src.vulns.elems[k].ID)
            /\ ret[c].err = NotFound => ReadWithoutAlias(aliasArg[c])
            /\ (ctx[c] = "live" /\ ReadWithoutAlias(aliasArg[c])) => ret[c].err = NotFound
            /\ src.vulns.kind = "error" =>
                   (ret[c].err \notin {NoErr, NotFound} /\ ret[c].id = 0)
            /\ ret[c].err # NoErr => ret[c].id = 0

\* C12's case: two elements of different IDs have the alias, and the ID of
\* the first one is returned.
C12_Witness ==
    \E c \in Calls :
        /\ op[c] = "ByAlias" /\ Done(c)
        /\ Len(src.vulns.elems) >= 2
        /\ HasAlias(1, aliasArg[c]) /\ HasAlias(2, aliasArg[c])
        /\ src.vulns.elems[1].ID # src.vulns.elems[2].ID
        /\ ret[c].err = NoErr /\ ret[c].id = src.vulns.elems[1].ID

\* An element of the index document b does not decode.
HasMalformed(b) == b.kind = "array" /\ \E k \in DOMAIN b.elems : ~b.elems[k].ok
\* Element k of the modules index decodes and has the module of r.
HasModule(k, r) == src.modules.elems[k].ok /\ src.modules.elems[k].Path = r.Module
\* The index document call c reads.
IndexRead(c) == IF op[c] = "ByPackage" THEN src.modules ELSE src.vulns
\* The decode loop of call c reaches an element that does not decode: for
\* ByPackage and ByAlias, one with no matching element before it.
ReachesMalformed(c) ==
    CASE op[c] = "ByPackage" ->
            /\ src.modules.kind = "array"
            /\ \E k \in DOMAIN src.modules.elems :
                   /\ ~src.modules.elems[k].ok
                   /\ \A j \in 1..(k - 1) : ~HasModule(j, req[c])
      [] op[c] = "ByAlias" ->
            /\ src.vulns.kind = "array"
            /\ \E k \in DOMAIN src.vulns.elems :
                   /\ ~src.vulns.elems[k].ok
                   /\ \A j \in 1..(k - 1) : ~HasAlias(j, aliasArg[c])
      [] op[c] = "Entries" -> HasMalformed(src.vulns)
      [] OTHER -> FALSE

\* C13, as stated: a decode failure is always fatal: when the modules index
\* (ByPackage) or the ID index (ByAlias, Entries) has an element that does
\* not decode at any position, also after the element that matches the
\* request, the call returns an error.
C13_MalformedAnywhereIsFatal ==
    \A c \in Calls :
        Done(c) =>
            /\ (op[c] = "ByPackage" /\ HasMalformed(src.modules)) => ret[c].err # NoErr
            /\ (op[c] \in {"ByAlias", "Entries"} /\ HasMalformed(src.vulns))
                   => ret[c].err # NoErr

\* C13, amended: an element that does not decode is fatal when the decode
\* loop reaches it: at any position for Entries, and before any element
\* that matches the request for ByPackage and ByAlias, whose loops stop at
\* the first match; the call then returns an error and no result.  An
\* element after the first match is not read: the call does not fail with a
\* decode error, and ByAlias returns the ID of the match.
C13_MalformedIsFatalWhereRead ==
    \A c \in Calls :
        Done(c) =>
            /\ ReachesMalformed(c) =>
                   /\ ret[c].err \notin {NoErr, NotFound}
                   /\ ret[c].isNil /\ ret[c].entries = <<>> /\ ret[c].id = 0
            /\ (op[c] \in {"ByPackage", "ByAlias"} /\ IndexRead(c).kind = "array"
                /\ ~ReachesMalformed(c)) => ret[c].err # "decode"
            /\ (op[c] = "ByAlias" /\ ctx[c] = "live" /\ HasMalformed(src.vulns)
                /\ ~ReachesMalformed(c)) => ret[c].err = NoErr

\* C13's case: a call ended by a decode error on an index whose element
\* that does not decode is followed by other elements.
C13_Witness ==
    \E c \in Calls :
        /\ Done(c) /\ ReachesMalformed(c)
        /\ op[c] \in {"ByPackage", "ByAlias"}
        /\ ret[c].err = "decode"
        /\ Len(IndexRead(c).elems) >= 2 /\ ~IndexRead(c).elems[1].ok

\* The errors the tasks of ByPackage(r) can end with when their gets are
\* not aborted: those of the candidates whose record is missing or does not
\* decode.
CandidateErrors(r) ==
    {fetchResult(src.entry[IndexCandidates(r)[k]], r).err :
        k \in DOMAIN IndexCandidates(r)} \ {NoErr}
\* ret is what ByPackage(r) returns when it runs alone: the database and
\* the request determine it (C3, C8), up to which failing candidate's error
\* comes first.
ReturnsAsAlone(result, r) ==
    LET s == ReadModules(src.modules, r)
    IN IF s.err # NoErr THEN result = RetNil(s.err)
       ELSE IF s.ids = <<>> THEN result = RetNil(NoErr)
       ELSE IF CandidateErrors(r) # {}
            THEN result.isNil /\ result.entries = <<>> /\ result.err \in CandidateErrors(r)
            ELSE result = RetList(ExpectedFrom(1, s.ids, r))

\* C14: concurrent ByPackage calls on one client for different modules do
\* not interfere: under every interleaving each call returns what it
\* returns alone, and every record it returns has a group of its own
\* module.
C14_ConcurrentCallsDoNotInterfere ==
    \A c \in Calls : \A d \in Calls :
        (/\ c # d /\ op[c] = "ByPackage" /\ op[d] = "ByPackage"
         /\ req[c].Module # req[d].Module /\ Done(c)) =>
            /\ ReturnsAsAlone(ret[c], req[c])
            /\ \A e \in Returned(c) : \E a \in GroupsOf(e) : a.Module.Path = req[c].Module

\* C14's case: two calls for different modules have returned lists, and a
\* record of the one is not in the list of the other.
C14_Witness ==
    \E c \in Calls : \E d \in Calls :
        /\ c # d /\ op[c] = "ByPackage" /\ op[d] = "ByPackage"
        /\ req[c].Module # req[d].Module
        /\ Succeeded(c) /\ Succeeded(d)
        /\ Len(ret[c].entries) = 2
        /\ \E e \in Returned(c) : e \notin Returned(d)
        /\ Returned(d) # {}

\* C15: ByPackage and Entries return only after every task they started
\* has ended, with or without an error: a call that has returned has no
\* task running, none that can still write to the buffer, and none left to
\* start.
C15_ReturnsAfterAllTasks ==
    \A c \in Calls :
        (op[c] \in {"ByPackage", "Entries"} /\ Done(c)) =>
            /\ Running(c) = {}
            /\ launched[c] = Len(ids[c])
            /\ \A i \in DOMAIN tpc[c] : tpc[c][i] = "done"
            /\ mux[c] = 0

\* C15's case: Entries has returned the error of one task, and another
\* task had written its record to the buffer.
C15_Witness ==
    \E c \in Calls :
        /\ op[c] = "Entries" /\ Done(c)
        /\ ret[c].err = "unmarshal"
        /\ Len(ids[c]) >= 2
        /\ \E i \in DOMAIN entries[c] : entries[c][i] # NilEntry
        /\ \A i \in DOMAIN tpc[c] : tpc[c][i] = "done"

\* The one interval of a record of one group with one range.
OnlyInterval(e) == Intervals(e.Affected[1].Ranges[1].Events, 0)[1]
\* The record e has one group, of module m, with a single semver range
\* whose one interval has a fixed version and no lower bound, or the zero
\* version as its lower bound.
SingleFixed(e, m) ==
    /\ Len(e.Affected) = 1
    /\ e.Affected[1].Module.Path = m
    /\ Len(e.Affected[1].Ranges) = 1
    /\ e.Affected[1].Ranges[1].Type = "SEMVER"
    /\ Len(Intervals(e.Affected[1].Ranges[1].Events, 0)) = 1
    /\ OnlyInterval(e).Introduced \in {0, 1}
    /\ OnlyInterval(e).Fixed # 0
\* Element k of the index entry of the module of r lists such a record,
\* with its fixed version or with no Fixed.
ListsSingleFixed(k, r) ==
    LET v == Listed(r)[k]
    IN /\ v.ID \in DOMAIN src.entry
       /\ src.entry[v.ID].kind = "bytes"
       /\ SingleFixed(src.entry[v.ID].entry, r.Module)
       /\ v.Fixed \in {0, OnlyInterval(src.entry[v.ID].entry).Fixed}
\* The context of call c was not cancelled, and every candidate has a
\* record that decodes.
AllRead(c) ==
    /\ ctx[c] # "cancelled"
    /\ \A k \in DOMAIN IndexCandidates(req[c]) :
           /\ IndexCandidates(req[c])[k] \in DOMAIN src.entry
           /\ src.entry[IndexCandidates(req[c])[k]].kind = "bytes"

\* C16: for a record whose group of the module has a single range with no
\* lower bound (or introduced at the zero version) and the fixed version F,
\* ByPackage with no package filter returns the record when the requested
\* version is strictly before F, and does not return it when the requested
\* version is F or after it.
C16_AffectedStrictlyBeforeFix ==
    \A c \in Calls :
        (/\ op[c] = "ByPackage" /\ Done(c) /\ req[c].Package = ""
         /\ src.modules.kind = "array") =>
            \A k \in DOMAIN Listed(req[c]) :
                ListsSingleFixed(k, req[c]) =>
                    LET e == src.entry[Listed(req[c])[k].ID].entry
                    IN /\ req[c].Version >= OnlyInterval(e).Fixed => e \notin Returned(c)
                       /\ (req[c].Version < OnlyInterval(e).Fixed /\ AllRead(c))
                              => (Succeeded(c) /\ e \in Returned(c))
                       /\ (req[c].Version < OnlyInterval(e).Fixed /\ Succeeded(c))
                              => e \in Returned(c)

\* C16's case: a range with no lower bound, fixed at a version F listed in
\* the index; the record is returned for the version just before F.
C16_Witness ==
    \E c \in Calls :
        /\ op[c] = "ByPackage" /\ Succeeded(c) /\ req[c].Package = ""
        /\ \E k \in DOMAIN Listed(req[c]) :
            /\ ListsSingleFixed(k, req[c])
            /\ LET e == src.entry[Listed(req[c])[k].ID].entry
               IN /\ OnlyInterval(e).Introduced = 0
                  /\ Listed(req[c])[k].Fixed = OnlyInterval(e).Fixed
                  /\ req[c].Version + 1 = OnlyInterval(e).Fixed
                  /\ req[c].Version > 1
                  /\ e \in Returned(c)

\* The events of all the ranges of a group in declaration order, each with
\* the type of its range.
RECURSIVE FlatEvents(_)
FlatEvents(ranges) ==
    IF ranges = <<>> THEN <<>>
    ELSE [k \in DOMAIN Head(ranges).Events |->
             [ev |-> Head(ranges).Events[k], type |-> Head(ranges).Type]]
         \o FlatEvents(Tail(ranges))
\* The positions, in ascending order, of the events that have a Fixed.
FixedPositions(flat) ==
    SelectSeq([k \in DOMAIN flat |-> k], LAMBDA k : flat[k].ev.Fixed # "")
\* The value v of a range of type t as the claim has it emitted.
Emitted(t, v) == IF t # "SEMVER" THEN v ELSE IF v = "" THEN "" ELSE "v" \o v
\* The lower bound of the n-th pair: the Introduced of the last event that
\* has one among those after the previous Fixed, up to the n-th Fixed.
LowerOf(flat, n) ==
    LET fp == FixedPositions(flat)
        from == IF n = 1 THEN 1 ELSE fp[n - 1] + 1
        set == {k \in from..fp[n] : flat[k].ev.Introduced # ""}
    IN IF set = {} THEN ""
       ELSE LET last == CHOOSE k \in set : \A j \in set : j <= k
            IN Emitted(flat[last].type, flat[last].ev.Introduced)

\* C17: collectRangePairs walks the events of the ranges in declaration
\* order with a lower bound that starts empty: an event with only
\* Introduced sets it and emits nothing, an event with Fixed emits (lower
\* bound, Fixed) and resets it; a value of a semver range gets a leading
\* "v" when it is not empty (an empty lower bound stays ""), a value of a
\* range of another type is emitted as it is; the pairs are in declaration
\* order across the ranges.
C17_RangePairsWalk ==
    \A c \in Calls :
        (op[c] = "collectRangePairs" /\ Done(c)) =>
            LET flat == FlatEvents(osvArg[c].Ranges)
                fp == FixedPositions(flat)
            IN /\ Len(out[c]) = Len(fp)
               /\ \A n \in DOMAIN out[c] :
                      /\ out[c][n].fixed = Emitted(flat[fp[n]].type, flat[fp[n]].ev.Fixed)
                      /\ out[c][n].intro = LowerOf(flat, n)
                      /\ out[c][n].intro # "v0" /\ out[c][n].intro # "v"
               /\ osvArg[c] = TestAffected =>
                      out[c] = <<pair("", "v0.5"), pair("v1.2", "v1.5"),
                                 pair("v2.1", "v2.3"), pair("a", "b")>>

\* C17's case: the input of TestCollectRangePairs, its four pairs emitted:
\* one with an empty lower bound, one of a range of another type.
C17_Witness ==
    \E c \in Calls :
        /\ op[c] = "collectRangePairs" /\ Done(c)
        /\ Len(osvArg[c].Ranges) = 3
        /\ Len(out[c]) = 4
        /\ out[c][1].intro = "" /\ out[c][1].fixed = "v0.5"
        /\ out[c][4] = pair("a", "b")

\* The packages of all the groups of a record, in declaration order.
RECURSIVE FlatPackages(_)
FlatPackages(affected) ==
    IF affected = <<>> THEN <<>>
    ELSE Head(affected).EcosystemSpecific.Packages \o FlatPackages(Tail(affected))
SetOf(s) == {s[k] : k \in DOMAIN s}
\* The byte order of the parts ("F" < "H" < "S" < "f" < "g" < "s"), and the
\* lexicographic order of the symbols it gives: a dot is before every
\* letter, so a symbol is after each of its proper prefixes.
PartOrder == <<"F", "H", "S", "f", "g", "s">>
PartRank(x) == CHOOSE k \in DOMAIN PartOrder : PartOrder[k] = x
RECURSIVE LexLess(_, _)
LexLess(a, b) ==
    IF b = <<>> THEN FALSE
    ELSE IF a = <<>> THEN TRUE
    ELSE IF Head(a) # Head(b) THEN PartRank(Head(a)) < PartRank(Head(b))
    ELSE LexLess(Tail(a), Tail(b))
\* s has no element twice, and is in ascending lexicographic order.
SortedNoRepeat(s) == \A k \in DOMAIN s : \A l \in DOMAIN s : k < l => LexLess(s[k], s[l])

\* C18, as stated: AffectedComponents puts a symbol of a package in the
\* exported bucket exactly when the identifier after its last dot starts
\* with an upper-case letter, and in the unexported bucket otherwise; each
\* bucket is deduplicated and sorted lexicographically, and no symbol is in
\* both.
C18_ExportedByLastIdentifierSorted ==
    \A c \in Calls :
        (op[c] = "AffectedComponents" /\ Done(c)) =>
            LET ps == FlatPackages(osvArg[c].Affected)
            IN /\ Len(out[c].pkgs) = Len(ps)
               /\ \A k \in DOMAIN ps :
                      LET ex == out[c].pkgs[k].ExportedSymbols
                          un == out[c].pkgs[k].UnexportedSymbols
                      IN /\ SetOf(ex) = {y \in SetOf(ps[k].Symbols) : y[Len(y)] \in UpperParts}
                         /\ SetOf(un) = {y \in SetOf(ps[k].Symbols) : y[Len(y)] \notin UpperParts}
                         /\ SortedNoRepeat(ex) /\ SortedNoRepeat(un)
                         /\ SetOf(ex) \cap SetOf(un) = {}

\* C18, amended: AffectedComponents puts a symbol of a package in the
\* exported bucket exactly when every part of it between the dots starts
\* with an upper-case letter (the receiver and the method of s.F or S.f do
\* not both), and in the unexported bucket otherwise; no symbol is in both
\* buckets; the buckets are not in byte order: the symbols F, g, S.f, S.F,
\* s.F, s.f give the exported F, S.F and the unexported g, S.f, s.F, s.f.
C18_ExportedWhenEveryPartIs ==
    \A c \in Calls :
        (op[c] = "AffectedComponents" /\ Done(c)) =>
            LET ps == FlatPackages(osvArg[c].Affected)
            IN /\ Len(out[c].pkgs) = Len(ps)
               /\ \A k \in DOMAIN ps :
                      LET ex == out[c].pkgs[k].ExportedSymbols
                          un == out[c].pkgs[k].UnexportedSymbols
                      IN /\ out[c].pkgs[k].Path = ps[k].Path
                         /\ SetOf(ex) = {y \in SetOf(ps[k].Symbols) :
                                            \A j \in DOMAIN y : y[j] \in UpperParts}
                         /\ SetOf(un) = {y \in SetOf(ps[k].Symbols) :
                                            \E j \in DOMAIN y : y[j] \notin UpperParts}
                         /\ SetOf(ex) \cap SetOf(un) = {}
               /\ osvArg[c] = TestSymbolsEntry =>
                      /\ out[c].pkgs[1].ExportedSymbols = <<<<"F">>, <<"S", "F">>>>
                      /\ out[c].pkgs[1].UnexportedSymbols =
                             <<<<"g">>, <<"S", "f">>, <<"s", "F">>, <<"s", "f">>>>
               /\ osvArg[c] = TestModulesEntry =>
                      /\ out[c].pkgs[3].ExportedSymbols = <<<<"H">>>>
                      /\ out[c].pkgs[3].UnexportedSymbols = <<<<"g">>>>

\* C18's case: a package that lists S.F and s.F: the first is in the
\* exported bucket, the second in the unexported one.
C18_Witness ==
    \E c \in Calls :
        /\ op[c] = "AffectedComponents" /\ Done(c)
        /\ Len(out[c].pkgs) >= 1
        /\ <<"S", "F">> \in SetOf(out[c].pkgs[1].ExportedSymbols)
        /\ <<"s", "F">> \in SetOf(out[c].pkgs[1].UnexportedSymbols)

\* The Versions string the claim gives for the first n pairs of the events
\* flat: the clauses of the pairs, each after a comma and a space but for
\* the first one.
RECURSIVE Rendered(_, _)
Rendered(flat, n) ==
    IF n = 0 THEN ""
    ELSE LET fp == FixedPositions(flat)
             upper == Emitted(flat[fp[n]].type, flat[fp[n]].ev.Fixed)
             lower == LowerOf(flat, n)
             clause == IF lower = "" THEN "before " \o upper
                       ELSE "from " \o lower \o " before " \o upper
         IN IF n = 1 THEN clause ELSE Rendered(flat, n - 1) \o ", " \o clause
\* The first component returned for a record: a package-level one when
\* there is one.
FirstComponent(o) == IF o.pkgs # <<>> THEN o.pkgs[1] ELSE o.mods[1]
\* The record of the test with the events ev, and what the test expects.
VersionsTestEntry(ev) ==
    Entry(1, <<Group("example.com/p", <<Range("SEMVER", ev)>>,
                     <<Package("example.com/p", <<>>)>>)>>)

\* C19: the Versions string of the first component AffectedComponents
\* returns for a group is the join with ", ", in collection order, of one
\* clause for each collected pair: "from <lower> before <upper>" for a pair
\* with both bounds, "before <upper>" for one with an upper bound only; it
\* is empty for a group with no events; and so it is also when the group
\* lists packages and the first component is a package-level one.
C19_VersionsJoinedInOrder ==
    \A c \in Calls :
        (op[c] = "AffectedComponents" /\ Done(c) /\ Len(osvArg[c].Affected) = 1) =>
            LET a == osvArg[c].Affected[1]
                flat == FlatEvents(a.Ranges)
                first == FirstComponent(out[c])
            IN /\ first.Versions = Rendered(flat, Len(FixedPositions(flat)))
               /\ flat = <<>> => first.Versions = ""
               /\ a.EcosystemSpecific.Packages # <<>> =>
                      (first = out[c].pkgs[1]
                       /\ first.Path = a.EcosystemSpecific.Packages[1].Path)
               /\ osvArg[c] = VersionsTestEntry(<<Event("", "1.5")>>)
                      => first.Versions = "before v1.5"
               /\ osvArg[c] = VersionsTestEntry(<<Event("1.5", ""), Event("", "1.10")>>)
                      => first.Versions = "from v1.5 before v1.10"
               /\ osvArg[c] = VersionsTestEntry(<<Event("1.5", "1.10"), Event("", "2.3")>>)
                      => first.Versions = "from v1.5 before v1.10, before v2.3"

\* C19's case: a group that lists a package and has two pairs, the first
\* with both bounds; the package-level component has the two clauses in
\* the order of the pairs.
C19_Witness ==
    \E c \in Calls :
        /\ op[c] = "AffectedComponents" /\ Done(c)
        /\ Len(osvArg[c].Affected) = 1
        /\ osvArg[c].Affected[1].EcosystemSpecific.Packages # <<>>
        /\ out[c].pkgs[1].Versions = "from v1.5 before v1.10, before v2.3"

\* The tasks of call c between mux.Lock() and mux.Unlock().
InAppend(c) == {i \in DOMAIN tpc[c] : tpc[c][i] \in {"append", "unlock"}}
\* The tasks of call c whose record passed the filter and that have
\* appended it.
Appended(c) ==
    {i \in DOMAIN tpc[c] :
        /\ tpc[c][i] \in {"unlock", "done"}
        /\ fetched[c][i] # NilEntry
        /\ isAffected(fetched[c][i], req[c])}
\* The candidate occurrences of call c whose record passed the filter.
Passed(c) ==
    {i \in DOMAIN ids[c] : fetched[c][i] # NilEntry /\ isAffected(fetched[c][i], req[c])}

\* C20: the appends of one ByPackage call to its result list exclude one
\* another and none is lost: at most one task is between Lock and Unlock,
\* the list has one element for each task that has appended, and the list
\* a successful call returns has exactly one element for each candidate
\* occurrence whose record passed the filter.
C20_AppendsExclusiveNoneLost ==
    \A c \in Calls :
        op[c] = "ByPackage" =>
            /\ Cardinality(InAppend(c)) <= 1
            /\ \A i \in InAppend(c) : mux[c] = i
            /\ Len(entries[c]) = Cardinality(Appended(c))
            /\ \A i \in Appended(c) :
                   CountIn(entries[c], fetched[c][i])
                       = Cardinality({j \in Appended(c) : fetched[c][j] = fetched[c][i]})
            /\ Succeeded(c) =>
                   /\ Len(ret[c].entries) = Cardinality(Passed(c))
                   /\ \A i \in Passed(c) :
                          CountIn(ret[c].entries, fetched[c][i])
                              = Cardinality({j \in Passed(c) : fetched[c][j] = fetched[c][i]})

\* C20's case: a task is inside the append while another one, whose record
\* passed the filter too, waits for the mutex.
C20_Witness ==
    \E c \in Calls : \E i \in DOMAIN tpc[c] : \E j \in DOMAIN tpc[c] :
        /\ op[c] = "ByPackage"
        /\ i # j
        /\ tpc[c][i] = "append" /\ mux[c] = i
        /\ tpc[c][j] = "lock"

\* Call c has returned after each of its candidates' tasks was started and
\* has ended.
Terminated(c) ==
    /\ Done(c)
    /\ launched[c] = Len(ids[c])
    /\ \A i \in DOMAIN tpc[c] : tpc[c][i] = "done"

\* C21: ByPackage and Entries always terminate when every get returns:
\* whatever the number of candidates, also above the limit of the group,
\* and whether or not a task fails and cancels the group's context, in the
\* end every task was started and has ended and the call has returned.
C21_CallsTerminate ==
    <>(\A c \in Calls : op[c] \in {"ByPackage", "Entries"} => Terminated(c))

\* C21's case: more IDs than the limit, a task that failed and cancelled
\* the group's context, and the call returned after all its tasks.
C21_Witness ==
    \E c \in Calls :
        /\ op[c] = "Entries" /\ Terminated(c)
        /\ Len(ids[c]) > EntriesLimit
        /\ gctx[c] /\ ret[c].err # NoErr

====
